---- MODULE Spec2Model ----
(***************************************************************************)
(* Token lifecycle of the Ecosuite API starter pack (src/auth_manager.py): *)
(* the token cache file, the unverified token decoder, the refresh-token   *)
(* exchange and handle_auth_flow with its MFA challenge loop.              *)
(*                                                                         *)
(* One invocation of get_auth_token is modelled as a sequential process    *)
(* whose position is pc; every remote call, console read and file access   *)
(* is one step whose outcome is chosen by the environment.  A second       *)
(* process of the same working directory may read the cache file at any    *)
(* time (ObserverLoad), and the clock may advance between steps (Tick).    *)
(***************************************************************************)
EXTENDS Integers, Sequences, FiniteSets, TLC

\* ------------------------------------------------------------------ bounds
\* Clock reading when the invocation starts (seconds since the epoch).
Now0 == 1000
\* How many seconds the clock may advance during one invocation.
MaxTick == 2
\* Lifetime the provider gives a newly issued primary token.
TokenLifetime == 3600

\* --------------------------------------------------------- program constants
\* auth_manager.py:189  "if time_until_exp < 900 and cached_refresh_token"
RefreshWindow == 900
\* auth_manager.py:87   "if exp > (current_time + 300)"
ExpiryBuffer == 300
\* A loop bound of four attempts in place of three.
max_attempts_four == 3 + 1
\* auth_manager.py:176  "max_attempts = 3"
max_attempts == 3

\* ------------------------------------------------------------------ values
\* Decoded claims: the value _decode_token_safe returns.
\*   kind  "None" (nothing), "dict" (a JSON object) or "list" (another JSON value)
\*   empty the object has no member (an empty dict is falsy in Python)
\*   hasExp / expNum / exp   the exp claim: present, numeric, its value
NoClaims == [kind |-> "None", empty |-> TRUE, hasExp |-> FALSE, expNum |-> FALSE, exp |-> 0]
ClaimsExp(e) == [kind |-> "dict", empty |-> FALSE, hasExp |-> TRUE, expNum |-> TRUE, exp |-> e]
ClaimsNoExp == [kind |-> "dict", empty |-> FALSE, hasExp |-> FALSE, expNum |-> FALSE, exp |-> 0]
ClaimsEmpty == [kind |-> "dict", empty |-> TRUE, hasExp |-> FALSE, expNum |-> FALSE, exp |-> 0]
ClaimsBadExp == [kind |-> "dict", empty |-> FALSE, hasExp |-> TRUE, expNum |-> FALSE, exp |-> 0]
ClaimsList == [kind |-> "list", empty |-> FALSE, hasExp |-> FALSE, expNum |-> FALSE, exp |-> 0]

\* A token value as Python sees it.
\*   str     "None" (no value), "empty" (the string '') or "str" (a non-empty string)
\*   parts   number of '.'-separated segments
\*   header  "ok" when segment 0 is a valid JOSE header, else "bad"
\*   payload "json" when segment 1 is base64url of a JSON text, else "garbage"
\*   claims  the JSON value of segment 1 when payload = "json"
\*   ser     who issued it: 0 the cache's own, 1 refresh, 2 authenticate, 3 challenge
MkToken(s, n, h, p, c, k) ==
    [str |-> s, parts |-> n, header |-> h, payload |-> p, claims |-> c, ser |-> k]
NoToken == MkToken("None", 0, "bad", "garbage", NoClaims, 0)
EmptyStr == MkToken("empty", 1, "bad", "garbage", NoClaims, 0)
Jwt(c, k) == MkToken("str", 3, "ok", "json", c, k)
Opaque(k) == MkToken("str", 1, "bad", "garbage", NoClaims, k)

\* Python truthiness of a token value: None and '' are falsy.
Truthy(tok) == tok.str = "str"
\* Python truthiness of decoded claims: None and {} are falsy.
TruthyClaims(c) == c.kind # "None" /\ ~c.empty

\* Exceptions, by class; ClientError carries the provider's error code.
NoExc == [cls |-> "none", code |-> ""]
Exc(c) == [cls |-> c, code |-> ""]
ClientError(code) == [cls |-> "ClientError", code |-> code]
\* Classes derived from Exception that occur in the flow.
ExceptionClasses ==
    {"ClientError", "KeyError", "EOFError", "EndpointConnectionError",
     "JSONDecodeError", "AttributeError", "TypeError", "OSError",
     "DecodeError", "ImportError"}

\* A handler that names the provider's error class alone.
CatchesException_narrow(e) == e.cls = "ClientError"
\* "except Exception" (lines 98, 122, 169, 266): every class derived from Exception.
CatchesException(e) == e.cls \in ExceptionClasses
\* "except ClientError" (lines 160, 249): that class alone, whatever its code.
CatchesClientError(e) == e.cls = "ClientError"

\* ---------------------------------------------------------- Token Inspector
\* jwt.decode(token, options={"verify_signature": False}): three segments, a
\* valid header and a payload that is a JSON object; anything else raises.
PyJWTDecodes(token) ==
    /\ token.parts = 3
    /\ token.header = "ok"
    /\ token.payload = "json"
    /\ token.claims.kind = "dict"

\* Decimal digits of a number below 100000.
Digits(n) ==
    IF n < 10 THEN 1 ELSE IF n < 100 THEN 2 ELSE IF n < 1000 THEN 3
    ELSE IF n < 10000 THEN 4 ELSE 5
\* Length of the JSON text of claims c:  {"exp":1300}  {"sub":"u"}  {}
\* {"exp":"x"}  [1]
JsonLen(c) ==
    IF c.kind = "list" THEN 3
    ELSE IF c.empty THEN 2
    ELSE IF c.hasExp /\ c.expNum THEN 7 + Digits(c.exp)
    ELSE 11
\* Length of the unpadded base64url text of n bytes.
B64Len(n) == (4 * n + 2) \div 3
\* len(payload) for a token whose segment 1 is the base64url of its claims.
PayloadLen(token) == B64Len(JsonLen(token.claims))
\* No padding added.
PadLength_none(len) == 0 * len
\* line 59: payload += '=' * (4 - len(payload) % 4)
PadLength(len) == 4 - (len % 4)
\* line 60: base64.urlsafe_b64decode of len characters followed by pad '=':
\* it needs the length brought to a multiple of 4 and ignores further '='.
B64Decodes(len, pad) ==
    /\ len % 4 # 1
    /\ pad >= (4 - (len % 4)) % 4

\* The manual fallback: segment 1 of the '.'-split token, padded,
\* base64url-decoded and parsed as JSON; any JSON value is returned.
ManualDecodes(token) ==
    /\ token.parts >= 2
    /\ token.payload = "json"
    /\ B64Decodes(PayloadLen(token), PadLength(PayloadLen(token)))

\* _decode_token_safe(token) with the module-level jwt being lib
\* ("PyJWT" or "None" when the import failed).
_decode_token_safe(token, lib) ==
    IF ~Truthy(token) THEN NoClaims
    ELSE IF lib = "PyJWT" /\ PyJWTDecodes(token) THEN token.claims
    ELSE IF ManualDecodes(token) THEN token.claims
    ELSE NoClaims

\* A decode call that returned claims.
DecodedOk == [exc |-> NoExc, ok |-> TRUE]
\* A decode call that raised e; e = NoExc: nothing was decoded, nothing raised.
DecodeFailed(e) == [exc |-> e, ok |-> FALSE]
\* The decoders _decode_token_safe(token) runs, in order, each with how it
\* ended: jwt.decode (line 45) when the library is there, then, unless line
\* 46 returned, the manual decode of lines 54-62.
decode_attempts(token, lib) ==
    IF ~Truthy(token) THEN <<>>
    ELSE LET structured ==
                 IF lib = "PyJWT"
                 THEN << [call |-> "jwt.decode",
                          r |-> IF PyJWTDecodes(token) THEN DecodedOk
                                ELSE DecodeFailed(Exc("DecodeError"))] >>
                 ELSE <<>>
             manual ==
                 << [call |-> "manual",
                     r |-> IF ManualDecodes(token) THEN DecodedOk
                           ELSE IF token.parts >= 2 THEN DecodeFailed(Exc("JSONDecodeError"))
                           ELSE DecodeFailed(NoExc)] >>
         IN IF lib = "PyJWT" /\ PyJWTDecodes(token) THEN structured
            ELSE structured \o manual

\* ------------------------------------------------------------- Token Cache
\* The cache file.  kind:
\*   "absent"   no file            "empty"    zero bytes (truncated)
\*   "partial"  a prefix of a JSON text        "notdict"  JSON, not an object
\*   "dict"     a JSON object with the keys whose value is not NoToken
\*   "unreadable"  a file the process may not open for reading
MkFile(k, t, r, a) == [kind |-> k, token |-> t, refresh_token |-> r, access_token |-> a]
Absent == MkFile("absent", NoToken, NoToken, NoToken)
Truncated == MkFile("empty", NoToken, NoToken, NoToken)
Partial == MkFile("partial", NoToken, NoToken, NoToken)
NotDict == MkFile("notdict", NoToken, NoToken, NoToken)
Unreadable == MkFile("unreadable", NoToken, NoToken, NoToken)

Triple(i, r, a) == [id |-> i, rt |-> r, at |-> a]
NoneTriple == Triple(NoToken, NoToken, NoToken)
Ret(e, v) == [exc |-> e, val |-> v]

\* A missing exp read as an expiry one token lifetime away.
GetExp_missing_is_fresh(decoded) ==
    IF decoded.hasExp THEN decoded.exp ELSE Now0 + TokenLifetime
\* decoded.get('exp', 0)
GetExp(decoded) == IF decoded.hasExp THEN decoded.exp ELSE 0

\* The body of load_cached_token's try block (lines 74-97): the value it
\* returns, or the exception it raises.  A falsy decode falls out of the try
\* block to line 100.
load_body(f, lib, t) ==
    IF f.kind = "absent" THEN Ret(NoExc, NoneTriple)
    ELSE IF f.kind = "unreadable" THEN Ret(Exc("OSError"), NoneTriple)
    ELSE IF f.kind \in {"empty", "partial"} THEN Ret(Exc("JSONDecodeError"), NoneTriple)
    ELSE IF f.kind = "notdict" THEN Ret(Exc("AttributeError"), NoneTriple)
    ELSE IF ~Truthy(f.token) THEN Ret(NoExc, NoneTriple)
    ELSE LET decoded == _decode_token_safe(f.token, lib) IN
         IF ~TruthyClaims(decoded) THEN Ret(NoExc, NoneTriple)
         ELSE IF decoded.kind # "dict" THEN Ret(Exc("AttributeError"), NoneTriple)
         ELSE IF decoded.hasExp /\ ~decoded.expNum THEN Ret(Exc("TypeError"), NoneTriple)
         ELSE IF GetExp(decoded) > t + ExpiryBuffer
              THEN Ret(NoExc, Triple(f.token, f.refresh_token, f.access_token))
              ELSE Ret(NoExc, Triple(f.token, f.refresh_token, f.access_token))

\* The load without its exception handler.
load_cached_token_uncaught(f, lib, t) == load_body(f, lib, t)
\* load_cached_token(): the try block under "except Exception" (line 98),
\* then "return None, None, None" (line 100).
load_cached_token(f, lib, t) ==
    LET r == load_body(f, lib, t) IN
    IF r.exc = NoExc THEN r
    ELSE IF CatchesException(r.exc) THEN Ret(NoExc, NoneTriple)
    ELSE r

\* A record that keeps the primary token only.
cache_data_primary_only(id_token, refresh_token, access_token) ==
    MkFile("dict", id_token, NoToken, NoToken)
\* cache_data built by save_token_to_cache (lines 112-117): 'token' always,
\* the other keys only when truthy.
cache_data(id_token, refresh_token, access_token) ==
    MkFile("dict", id_token,
           IF Truthy(refresh_token) THEN refresh_token ELSE NoToken,
           IF Truthy(access_token) THEN access_token ELSE NoToken)

\* -------------------------------------------------- Identity Provider Client
\* What a remote call comes back with: an exception raised by boto3, or a
\* response dict.  challenge: 'ChallengeName' in response; hasResult:
\* 'AuthenticationResult' in response; a token NoToken is a missing key.
MkResp(e, c, h, i, r, a) ==
    [exc |-> e, challenge |-> c, hasResult |-> h, IdToken |-> i, RefreshToken |-> r,
     AccessToken |-> a]
Raises(e) == MkResp(e, FALSE, FALSE, NoToken, NoToken, NoToken)
Tokens(i, r, a) == MkResp(NoExc, FALSE, TRUE, i, r, a)
Challenge == MkResp(NoExc, TRUE, FALSE, NoToken, NoToken, NoToken)
NoResult == MkResp(NoExc, FALSE, FALSE, NoToken, NoToken, NoToken)
NoResponse == Raises(NoExc)

\* Tokens the provider issues at time t; k tells the issuing call.
IssuedId(t, k) == Jwt(ClaimsExp(t + TokenLifetime), k)
IssuedRefresh(k) == Opaque(k)
IssuedAccess(t, k) == Jwt(ClaimsNoExp, k)

\* Error codes of the provider that mean "the submitted code is wrong".
InvalidCodeErrors == {"CodeMismatchException", "NotAuthorizedException"}

\* Outcomes of initiate_auth(AuthFlow='REFRESH_TOKEN_AUTH') at time t.
RefreshResponses(t) ==
    { Tokens(IssuedId(t, 1), IssuedRefresh(1), IssuedAccess(t, 1)),
      Tokens(IssuedId(t, 1), NoToken, IssuedAccess(t, 1)),
      Tokens(NoToken, NoToken, NoToken),
      NoResult,
      Raises(ClientError("NotAuthorizedException")),
      Raises(ClientError("InternalErrorException")),
      Raises(Exc("EndpointConnectionError")) }

\* Outcomes of initiate_auth(AuthFlow='USER_PASSWORD_AUTH') at time t.
AuthResponses(t) ==
    { Tokens(IssuedId(t, 2), IssuedRefresh(2), IssuedAccess(t, 2)),
      Tokens(NoToken, NoToken, NoToken),
      Challenge,
      NoResult,
      Raises(ClientError("NotAuthorizedException")),
      Raises(Exc("EndpointConnectionError")) }

\* Outcomes of respond_to_auth_challenge at time t.
ChallengeResponses(t) ==
    { Tokens(IssuedId(t, 3), IssuedRefresh(3), IssuedAccess(t, 3)),
      Tokens(NoToken, NoToken, NoToken),
      NoResult,
      Raises(ClientError("CodeMismatchException")),
      Raises(ClientError("InternalErrorException")),
      Raises(Exc("EndpointConnectionError")) }

\* The RefreshToken of the response read without the previous one as default.
refresh_token_nodefault(refresh_token_value, r) ==
    IF r.exc # NoExc \/ ~r.hasResult THEN Ret(NoExc, NoneTriple)
    ELSE Ret(NoExc, Triple(r.IdToken, r.RefreshToken, r.AccessToken))
\* refresh_token(refresh_token_value) given the provider's outcome r
\* (lines 136-173): the triple it returns.
refresh_token(refresh_token_value, r) ==
    IF r.exc # NoExc
    THEN IF CatchesClientError(r.exc) \/ CatchesException(r.exc)
         THEN Ret(NoExc, NoneTriple)
         ELSE Ret(r.exc, NoneTriple)
    ELSE IF r.hasResult
         THEN Ret(NoExc, Triple(r.IdToken,
                                IF r.RefreshToken # NoToken THEN r.RefreshToken
                                ELSE refresh_token_value,
                                r.AccessToken))
         ELSE Ret(NoExc, NoneTriple)

\* ------------------------------------------------------- Auth Orchestrator
VARIABLES
    pc,               \* position of handle_auth_flow
    file,             \* content of TOKEN_CACHE_FILE
    file0,            \* content of TOKEN_CACHE_FILE when the invocation started
    now,              \* time.time()
    jwt,              \* the module-level jwt: "PyJWT", or "None" when the import failed
    cached,           \* (cached_id_token, cached_refresh_token, cached_access_token)
    branch,           \* which refresh call site is running: "expiring" (191) or "undecodable" (209)
    response,         \* response of the password step (challenge name and session)
    current_attempt,  \* the MFA loop's counter
    pending,          \* cache_data of the save in progress
    retval,           \* what handle_auth_flow returns once the save is over
    site,             \* call site of the save in progress: "refresh" (195, 211) or "auth" (246, 262)
    result,           \* the value handle_auth_flow returned
    outcome,          \* "running", "returned" or "raised"
    calls,            \* how many times each call was made in this invocation
    log,              \* the calls made so far, in order, each with its outcome
    current_time,     \* time.time() as read at line 185
    saved,            \* how the save ended: "none", "ok" or "failed" (what it logs)
    observed,         \* what a load of another process last read and returned
    decoded,          \* decoded = _decode_token_safe(cached_id_token) of line 182
    env,              \* the process environment read by get_api_token (main.py)
    cli,              \* get_api_token: its position, the token it returns, its prompts
    username,         \* the username handle_auth_flow was called with
    mfa,              \* response['ChallengeName'] and response['Session'] of the password step
    submitted,        \* what each respond_to_auth_challenge call was sent, in order
    main              \* main(): its position, project ids, the GETs made, its exit status

vars == <<pc, file, file0, now, jwt, cached, branch, response, current_attempt,
          pending, retval, site, result, outcome, calls, log, current_time, saved,
          observed, decoded, env, cli, username, mfa, submitted, main>>

\* calls.invalid counts the challenge responses the provider rejected with an
\* invalid-code error.
NoCalls ==
    [load |-> 0, refresh |-> 0, auth |-> 0, prompt |-> 0, respond |-> 0, save |-> 0,
     invalid |-> 0]
Called(what) == [calls EXCEPT ![what] = @ + 1]
Outcome(call, r) == [call |-> call, r |-> r]

\* ----- the cache files an invocation may find
ExpOffsets == {0 - 60, 300, RefreshWindow - 1, RefreshWindow, RefreshWindow + 1,
               RefreshWindow + 2, TokenLifetime}
CachedIdTokens ==
    { Jwt(ClaimsExp(Now0 + d), 0) : d \in ExpOffsets }
    \cup { Jwt(ClaimsNoExp, 0), Jwt(ClaimsEmpty, 0), Jwt(ClaimsBadExp, 0), Jwt(ClaimsList, 0),
           MkToken("str", 3, "bad", "json", ClaimsExp(Now0 + TokenLifetime), 0),
           MkToken("str", 2, "bad", "json", ClaimsExp(Now0 + 300), 0),
           Opaque(0), EmptyStr, NoToken }
CachedRefreshTokens == { NoToken, Opaque(0) }
CachedAccessTokens == { NoToken, Jwt(ClaimsNoExp, 0) }
CacheFiles ==
    { Absent, Truncated, Partial, NotDict, Unreadable }
    \cup { MkFile("dict", t, r, a) :
             t \in CachedIdTokens, r \in CachedRefreshTokens, a \in CachedAccessTokens }

NothingObserved == [raw |-> Absent, val |-> NoneTriple, n |-> 0]

\* ----- main.py: the environment and get_api_token
\* What os.getenv returns: None when the variable is not set, else a string:
\* core, with white space around it when pad.
MkEnv(isset, pad, core) == [set |-> isset, pad |-> pad, core |-> core]
EnvNone == MkEnv(FALSE, FALSE, NoToken)
EnvStr(core) == MkEnv(TRUE, FALSE, core)
EnvPadded(core) == MkEnv(TRUE, TRUE, core)
\* Python truthiness of such a value: None and '' are falsy, ' ' is not.
TruthyEnv(v) == v.set /\ (v.pad \/ Truthy(v.core))
\* str.strip()
Strip(v) == IF Truthy(v.core) THEN v.core ELSE EmptyStr
MkEnviron(t, a, u, p) ==
    [ECOSUITE_TOKEN |-> t, ECOSUITE_API_TOKEN |-> a, ECOSUITE_USERNAME |-> u,
     ECOSUITE_PASSWORD |-> p]
NoEnv == MkEnviron(EnvNone, EnvNone, EnvNone, EnvNone)
\* get_api_token:  pc "start", "auth" (inside get_auth_token), "manual" (at
\* the manual-token prompt), "done" or "raised";  token: what it returned;
\* prompts: manual-token prompts shown;  called: get_auth_token was called.
MkCli(p, t, n, c) == [pc |-> p, token |-> t, prompts |-> n, called |-> c]
CliIdle == MkCli("auth", NoToken, 0, TRUE)

\* ----- the MFA challenge
\* response['ChallengeName'] and response['Session'] of a password step that
\* asks for a code; Session 0 with no name: no challenge was received.
MkChallenge(name, session) == [ChallengeName |-> name, Session |-> session]
NoChallengeData == MkChallenge("", 0)
ChallengeData == { MkChallenge("SOFTWARE_TOKEN_MFA", 1), MkChallenge("SMS_MFA", 2) }
\* A challenge response sent without the session handle.
ChallengeRequest_nosession(m, user) ==
    [ChallengeName |-> m.ChallengeName, Session |-> 0, USERNAME |-> user]
\* lines 231-238: the arguments of respond_to_auth_challenge.
ChallengeRequest(m, user) ==
    [ChallengeName |-> m.ChallengeName, Session |-> m.Session, USERNAME |-> user]

\* ----- main.py: main()
\* pc: "ids" (prompt_project_ids), "token" (get_api_token), "inputs" (dates
\* and aggregation), "project" (the loop of line 304), "global" (lines
\* 418-498), "done", "raised";  project_ids: the ids given;  i: the project
\* the loop is at;  j: GETs made for it (or global GETs made);  requests: the
\* GETs made, in order;  failed: a GET has failed in transport;  status: the
\* exit status, -1 while running;  exc: the exception that ended main.
MkMain(p, ids, i, j, reqs, failed, status, e) ==
    [pc |-> p, project_ids |-> ids, i |-> i, j |-> j, requests |-> reqs,
     failed |-> failed, status |-> status, exc |-> e]
MainIdle == MkMain("token", <<>>, 0, 0, <<>>, FALSE, 0 - 1, NoExc)

\* The state in which handle_auth_flow starts.
InitAuth ==
    /\ pc = "load"
    /\ file \in CacheFiles
    /\ file0 = file
    /\ now = Now0
    /\ jwt \in {"PyJWT", "None"}
    /\ cached = NoneTriple
    /\ branch = "none"
    /\ response = NoResponse
    /\ current_attempt = 0
    /\ pending = Absent
    /\ retval = NoToken
    /\ site = "none"
    /\ result = NoToken
    /\ outcome = "running"
    /\ calls = NoCalls
    /\ log = <<>>
    /\ current_time = 0
    /\ saved = "none"
    /\ observed = NothingObserved
    /\ decoded = NoClaims
    /\ username = Opaque(5)
    /\ mfa = NoChallengeData
    /\ submitted = <<>>

\* get_auth_token(username, password) called on its own.
Init ==
    /\ InitAuth
    /\ env = NoEnv
    /\ cli = CliIdle
    /\ main = MainIdle

\* ----- leaving handle_auth_flow
Return(v) == pc' = "done" /\ outcome' = "returned" /\ result' = v
Raise(e) == pc' = "done" /\ outcome' = "raised" /\ result' = NoToken
\* An exception inside the try block of lines 215-264: "except Exception"
\* (line 266) logs it and returns None.
OuterExcept(e) == IF CatchesException(e) THEN Return(NoToken) ELSE Raise(e)

\* save_token_to_cache(id, rt, at) is called from site s; handle_auth_flow
\* returns id afterwards.
StartSave(id, rt, at, s) ==
    /\ pc' = "save_open"
    /\ pending' = cache_data(id, rt, at)
    /\ retval' = id
    /\ site' = s
    /\ UNCHANGED <<outcome, result>>

\* line 179: cached_id_token, ... = load_cached_token()
Load ==
    /\ pc = "load"
    /\ calls' = Called("load")
    /\ LET r == load_cached_token(file, jwt, now) IN
       IF r.exc = NoExc
       THEN /\ cached' = r.val
            /\ pc' = "inspect"
            /\ UNCHANGED <<outcome, result>>
       ELSE /\ cached' = cached
            /\ Raise(r.exc)
    /\ UNCHANGED <<file, file0, now, jwt, branch, response, current_attempt, pending,
                   retval, site, current_time, saved, observed>>
    /\ log' = Append(log, Outcome("load", NoResult))
    /\ UNCHANGED <<decoded, env, cli, username, mfa, submitted, main>>

\* The window taken in minutes where the difference is in seconds.
NeedsRefresh_minutes(time_until_exp, cached_refresh_token) ==
    time_until_exp < RefreshWindow * 60 /\ Truthy(cached_refresh_token)
\* The 5 minute buffer of the cache load used in place of the 15 minute window.
NeedsRefresh_buffer(time_until_exp, cached_refresh_token) ==
    time_until_exp < ExpiryBuffer /\ Truthy(cached_refresh_token)
\* line 189: "if time_until_exp < 900 and cached_refresh_token"
NeedsRefresh(time_until_exp, cached_refresh_token) ==
    time_until_exp < RefreshWindow /\ Truthy(cached_refresh_token)

\* lines 180-213 up to the first call that leaves the process: which way
\* handle_auth_flow goes with the loaded triple at time t.
\*   "return"   return cached_id_token (lines 201-204)
\*   "refresh"  refresh_token(cached_refresh_token) at line 191 or 209
\*   "auth"     fall through to line 215
\*   "raise"    an exception outside any try block
Decide(c, lib, t) ==
    IF ~Truthy(c.id) THEN [to |-> "auth", branch |-> "none", exc |-> NoExc]
    ELSE LET claims == _decode_token_safe(c.id, lib) IN
         IF TruthyClaims(claims)
         THEN IF claims.kind # "dict"
              THEN [to |-> "raise", branch |-> "none", exc |-> Exc("AttributeError")]
              ELSE IF claims.hasExp /\ ~claims.expNum
              THEN [to |-> "raise", branch |-> "none", exc |-> Exc("TypeError")]
              ELSE IF NeedsRefresh(GetExp(claims) - t, c.rt)
                   THEN [to |-> "refresh", branch |-> "expiring", exc |-> NoExc]
                   ELSE [to |-> "return", branch |-> "none", exc |-> NoExc]
         ELSE IF Truthy(c.rt)
              THEN [to |-> "refresh", branch |-> "undecodable", exc |-> NoExc]
              ELSE [to |-> "auth", branch |-> "none", exc |-> NoExc]

\* lines 180-213: inspect the cached token and choose the path.
Inspect ==
    /\ pc = "inspect"
    /\ LET d == Decide(cached, jwt, now) IN
       /\ branch' = d.branch
       /\ IF d.to = "return" THEN Return(cached.id)
          ELSE IF d.to = "raise" THEN Raise(d.exc)
          ELSE pc' = d.to /\ UNCHANGED <<outcome, result>>
    /\ current_time' = now
    /\ UNCHANGED <<file, file0, now, jwt, cached, response, current_attempt, pending,
                   retval, site, calls, log, saved, observed>>
    /\ decoded' = _decode_token_safe(cached.id, jwt)
    /\ UNCHANGED <<env, cli, username, mfa, submitted, main>>

\* A failed refresh that always falls through to re-authentication.
AfterFailedRefresh_reauth(b) == "auth"
\* A failed refresh that is tried again.
AfterFailedRefresh_retry(b) == "refresh"
\* lines 198-201 and 210-213: where a failed refresh leads.
AfterFailedRefresh(b) == IF b = "expiring" THEN "return" ELSE "auth"

\* lines 191-201 and 209-212: the refresh call and what follows it.
Refresh ==
    /\ pc = "refresh"
    /\ \E r \in RefreshResponses(now) :
         LET got == refresh_token(cached.rt, r) IN
         /\ log' = Append(log, Outcome("refresh", r))
         /\ IF got.exc # NoExc
            THEN /\ Raise(got.exc)
                 /\ calls' = Called("refresh")
                 /\ UNCHANGED <<pending, retval, site>>
            ELSE IF Truthy(got.val.id)
            THEN /\ StartSave(got.val.id, got.val.rt, got.val.at, "refresh")
                 /\ calls' = [calls EXCEPT !.refresh = @ + 1, !.save = @ + 1]
            ELSE /\ calls' = Called("refresh")
                 /\ UNCHANGED <<pending, retval, site>>
                 /\ IF AfterFailedRefresh(branch) = "return"
                    THEN Return(cached.id)
                    ELSE pc' = AfterFailedRefresh(branch) /\ UNCHANGED <<outcome, result>>
    /\ UNCHANGED <<file, file0, now, jwt, cached, branch, response, current_attempt,
                   current_time, saved, observed>>
    /\ UNCHANGED <<decoded, env, cli, username, mfa, submitted, main>>

\* line 228: "while current_attempt < max_attempts"
WhileCond(n) == n < max_attempts
\* line 251: "if current_attempt >= max_attempts: raise e"
AttemptsExhausted(n) == n >= max_attempts

\* The head of the MFA loop with the counter at n: another prompt, or the
\* loop is left and line 256 reads response['AuthenticationResult'], which a
\* challenge response does not hold (KeyError).
LoopHead(n) ==
    IF WhileCond(n)
    THEN pc' = "prompt" /\ UNCHANGED <<outcome, result>>
    ELSE OuterExcept(Exc("KeyError"))

\* lines 216-226 and 256-264: the password step.
Authenticate ==
    /\ pc = "auth"
    /\ \E r \in AuthResponses(now) :
         /\ log' = Append(log, Outcome("auth", r))
         /\ response' = r
         /\ IF r.exc # NoExc
            THEN /\ OuterExcept(r.exc)
                 /\ calls' = Called("auth")
                 /\ UNCHANGED <<current_attempt, pending, retval, site, mfa>>
            ELSE IF r.challenge
            THEN /\ current_attempt' = 0
                 /\ LoopHead(0)
                 /\ calls' = Called("auth")
                 /\ mfa' \in ChallengeData
                 /\ UNCHANGED <<pending, retval, site>>
            ELSE IF ~r.hasResult
            THEN /\ OuterExcept(Exc("KeyError"))
                 /\ calls' = Called("auth")
                 /\ UNCHANGED <<current_attempt, pending, retval, site, mfa>>
            ELSE /\ StartSave(r.IdToken, r.RefreshToken, r.AccessToken, "auth")
                 /\ calls' = [calls EXCEPT !.auth = @ + 1, !.save = @ + 1]
                 /\ UNCHANGED <<current_attempt, mfa>>
    /\ UNCHANGED <<file, file0, now, jwt, cached, branch, current_time, saved, observed>>
    /\ UNCHANGED <<decoded, env, cli, username, submitted, main>>

\* line 230: mfa_code = input("Enter MFA code: ")
Prompt ==
    /\ pc = "prompt"
    /\ calls' = Called("prompt")
    /\ \E r \in {NoResult, Raises(Exc("EOFError"))} :
         /\ log' = Append(log, Outcome("prompt", r))
         /\ IF r.exc # NoExc
            THEN OuterExcept(r.exc)
            ELSE pc' = "respond" /\ UNCHANGED <<outcome, result>>
    /\ UNCHANGED <<file, file0, now, jwt, cached, branch, response, current_attempt,
                   pending, retval, site, current_time, saved, observed>>
    /\ UNCHANGED <<decoded, env, cli, username, mfa, submitted, main>>

\* lines 231-254: submit the code; "except ClientError" counts the attempt
\* and retries, anything else leaves the loop.
Respond ==
    /\ pc = "respond"
    /\ \E r \in ChallengeResponses(now) :
         /\ log' = Append(log, Outcome("respond", r))
         /\ IF r.exc # NoExc
            THEN /\ UNCHANGED <<pending, retval, site>>
                 /\ calls' = [calls EXCEPT !.respond = @ + 1,
                                !.invalid = IF r.exc.code \in InvalidCodeErrors
                                            THEN @ + 1 ELSE @]
                 /\ IF CatchesClientError(r.exc)
                    THEN /\ current_attempt' = current_attempt + 1
                         /\ IF AttemptsExhausted(current_attempt + 1)
                            THEN OuterExcept(r.exc)
                            ELSE LoopHead(current_attempt + 1)
                    ELSE /\ OuterExcept(r.exc)
                         /\ UNCHANGED current_attempt
            ELSE IF ~r.hasResult
            THEN /\ OuterExcept(Exc("KeyError"))
                 /\ calls' = Called("respond")
                 /\ UNCHANGED <<current_attempt, pending, retval, site>>
            ELSE /\ StartSave(r.IdToken, r.RefreshToken, r.AccessToken, "auth")
                 /\ calls' = [calls EXCEPT !.respond = @ + 1, !.save = @ + 1]
                 /\ UNCHANGED current_attempt
    /\ submitted' = Append(submitted, ChallengeRequest(mfa, username))
    /\ UNCHANGED <<file, file0, now, jwt, cached, branch, response, current_time, saved,
                   observed>>
    /\ UNCHANGED <<decoded, env, cli, username, mfa, main>>

\* A save whose exception reaches the caller.
SaveExcept_propagates(e) == IF site = "auth" THEN OuterExcept(e) ELSE Raise(e)
\* An exception of save_token_to_cache's try block: "except Exception"
\* (line 122) logs it and the caller goes on to its return statement; one it
\* did not catch would reach the caller, whose outer try covers lines 246
\* and 262 only.
SaveExcept(e) ==
    IF CatchesException(e) THEN Return(retval)
    ELSE IF site = "auth" THEN OuterExcept(e)
    ELSE Raise(e)

\* line 119: open(TOKEN_CACHE_FILE, 'w') truncates the file, or fails and
\* leaves it as it was.
SaveOpen ==
    /\ pc = "save_open"
    /\ \E ok \in BOOLEAN :
         IF ok
         THEN /\ file' = Truncated
              /\ pc' = "save_write"
              /\ UNCHANGED <<outcome, result, saved>>
         ELSE /\ file' = file
              /\ saved' = "failed"
              /\ SaveExcept(Exc("OSError"))
    /\ UNCHANGED <<file0, now, jwt, cached, branch, response, current_attempt, pending,
                   retval, site, calls, log, current_time, observed>>
    /\ UNCHANGED <<decoded, env, cli, username, mfa, submitted, main>>

\* line 120 and the end of the with block: json.dump writes cache_data and
\* the file is closed, or the write fails and leaves what was written so far.
SaveWrite ==
    /\ pc = "save_write"
    /\ \E w \in {"ok", "nothing", "part"} :
         IF w = "ok"
         THEN /\ file' = pending
              /\ saved' = "ok"
              /\ Return(retval)
         ELSE /\ file' = (IF w = "part" THEN Partial ELSE Truncated)
              /\ saved' = "failed"
              /\ SaveExcept(Exc("OSError"))
    /\ UNCHANGED <<file0, now, jwt, cached, branch, response, current_attempt, pending,
                   retval, site, calls, log, current_time, observed>>
    /\ UNCHANGED <<decoded, env, cli, username, mfa, submitted, main>>

\* The clock advances.
Tick ==
    /\ pc # "done"
    /\ now < Now0 + MaxTick
    /\ now' = now + 1
    /\ UNCHANGED <<pc, file, file0, jwt, cached, branch, response, current_attempt,
                   pending, retval, site, result, outcome, calls, log, current_time, saved,
                   observed>>
    /\ UNCHANGED <<decoded, env, cli, username, mfa, submitted, main>>

\* Another process of the same working directory runs load_cached_token.
ObserverLoad ==
    /\ observed.n = 0
    /\ observed' = [raw |-> file, val |-> load_cached_token(file, jwt, now).val, n |-> 1]
    /\ UNCHANGED <<pc, file, file0, now, jwt, cached, branch, response, current_attempt,
                   pending, retval, site, result, outcome, calls, log, current_time, saved>>
    /\ UNCHANGED <<decoded, env, cli, username, mfa, submitted, main>>

Next ==
    \/ Load
    \/ Inspect
    \/ Refresh
    \/ Authenticate
    \/ Prompt
    \/ Respond
    \/ SaveOpen
    \/ SaveWrite
    \/ Tick
    \/ ObserverLoad

Spec == Init /\ [][Next]_vars

\* ------------------------------------------------------------ vocabulary
Done == pc = "done"
\* The claims of the cached primary token, as the Inspector decodes them.
CachedClaims == _decode_token_safe(file0.token, jwt)
\* The cache holds a primary token whose claims decode to an expiry instant.
CacheHasExpiry ==
    /\ file0.kind = "dict"
    /\ Truthy(file0.token)
    /\ CachedClaims.kind = "dict"
    /\ CachedClaims.hasExp
    /\ CachedClaims.expNum
CacheHasRefresh == file0.kind = "dict" /\ Truthy(file0.refresh_token)
\* The calls of one kind in the log.
EventsOf(call) == { i \in DOMAIN log : log[i].call = call }
\* A response that carries a primary token.
Succeeded(r) == r.exc = NoExc /\ r.hasResult /\ Truthy(r.IdToken)
RefreshSucceeded == \E i \in EventsOf("refresh") : Succeeded(log[i].r)
RefreshFailed == \E i \in EventsOf("refresh") : ~Succeeded(log[i].r)
NoNetworkCall == calls.refresh = 0 /\ calls.auth = 0 /\ calls.respond = 0

\* ------------------------------------------------------------------ C1
\* C1: a cached primary token whose decoded expiry is more than 900 seconds
\* in the future is returned as it is, with no refresh, authenticate or
\* challenge-response call, whether or not a refresh token is cached.
C1_FastPath ==
    (Done /\ CacheHasExpiry /\ CachedClaims.exp - now > RefreshWindow)
        => /\ outcome = "returned"
           /\ result = file0.token
           /\ NoNetworkCall
C1_Witness ==
    /\ Done
    /\ CacheHasExpiry
    /\ CachedClaims.exp - now > RefreshWindow
    /\ CacheHasRefresh
    /\ result = file0.token
    /\ now > Now0

\* ------------------------------------------------------------------ C2
\* C2: with a cached primary token that expired 60 seconds ago and no refresh
\* token, get_token authenticates with username and password, makes no
\* refresh attempt and does not return the expired token.
C2_ExpiredReauthenticates ==
    (Done /\ CacheHasExpiry /\ CachedClaims.exp = Now0 - 60 /\ ~CacheHasRefresh)
        => /\ calls.auth = 1
           /\ calls.refresh = 0
           /\ result # file0.token

\* ------------------------------------------------------------------ C3
\* C3: with a cached primary token whose claims do not decode and a cached
\* refresh token, get_token attempts a refresh and returns the refreshed
\* token when it succeeds; it authenticates only after a failed refresh.
C3_UndecodableRefreshes ==
    (Done /\ file0.kind = "dict" /\ Truthy(file0.token) /\ CachedClaims.kind = "None"
          /\ CacheHasRefresh)
        => /\ calls.refresh = 1
           /\ RefreshSucceeded => (result = log[2].r.IdToken /\ calls.auth = 0)
           /\ calls.auth > 0 => RefreshFailed

\* ------------------------------------------------------------------ C4
\* The refresh ended with a new primary token, which get_token returned, and
\* the cache holds the bundle the provider issued.
RefreshedAndStored ==
    /\ calls.refresh = 1
    /\ RefreshSucceeded
        => /\ outcome = "returned"
           /\ result = log[2].r.IdToken
           /\ result # file0.token
           /\ saved = "ok" => /\ file.kind = "dict"
                              /\ file.token = log[2].r.IdToken
                              /\ file.access_token = log[2].r.AccessToken
                              /\ Truthy(file.refresh_token)
\* C4 as stated: expiry 900 seconds or less away (900 included) with a
\* refresh token: refresh is called, and on success the cache holds the new
\* bundle and the new primary token is returned.
C4_AsStated ==
    (Done /\ CacheHasExpiry /\ CacheHasRefresh
          /\ CachedClaims.exp - current_time <= RefreshWindow)
        => /\ calls.refresh = 1
           /\ RefreshSucceeded
               => /\ result = log[2].r.IdToken
                  /\ file.kind = "dict"
                  /\ file.token = log[2].r.IdToken
\* C4 amended: expiry strictly less than 900 seconds away; the cache holds the
\* new bundle when the write succeeded.
C4_RefreshWithinWindow ==
    (Done /\ CacheHasExpiry /\ CacheHasRefresh
          /\ CachedClaims.exp - current_time < RefreshWindow)
        => RefreshedAndStored
C4_Witness ==
    /\ Done
    /\ CacheHasExpiry
    /\ CacheHasRefresh
    /\ CachedClaims.exp - current_time = RefreshWindow - 1
    /\ RefreshSucceeded
    /\ saved = "ok"
    /\ file.token = result
    /\ result.ser = 1

\* ------------------------------------------------------------------ C5
\* C5: when the refresh fails while the cached token decodes and has not
\* reached its expiry, get_token returns the cached primary token, makes no
\* authenticate call and leaves the cache record as it was.
C5_FailedRefreshKeepsToken ==
    (Done /\ CacheHasExpiry /\ RefreshFailed /\ CachedClaims.exp > now)
        => /\ outcome = "returned"
           /\ result = file0.token
           /\ Truthy(result)
           /\ calls.auth = 0
           /\ file = file0
C5_Witness ==
    /\ Done
    /\ CacheHasExpiry
    /\ RefreshFailed
    /\ CachedClaims.exp > now
    /\ log[2].r.exc = ClientError("NotAuthorizedException")
    /\ result = file0.token

\* ------------------------------------------------------------------ C6
\* C6: whenever the provider rejects the refresh token, get_token goes on to
\* authenticate with username and password.
C6_RejectedRefreshReauthenticates ==
    (Done /\ \E i \in EventsOf("refresh") :
                log[i].r.exc = ClientError("NotAuthorizedException"))
        => calls.auth = 1

\* ------------------------------------------------------------------ C7
\* Every prompt was answered with a code and the provider rejected each code
\* as invalid.
AllCodesRejected == response.challenge /\ calls.invalid = calls.prompt
\* C7: when the provider requires a challenge and rejects every submitted
\* code as invalid, get_token ends with no token after exactly 3 prompts and
\* 3 challenge-response calls; there is never a 4th prompt, and the cache is
\* not written.
C7_MfaBound ==
    /\ calls.prompt <= 3
    /\ calls.respond <= 3
    /\ (Done /\ AllCodesRejected)
        => /\ calls.prompt = 3
           /\ calls.respond = 3
           /\ outcome = "returned"
           /\ result = NoToken
           /\ calls.save = 0
           /\ file = file0
C7_Witness ==
    /\ Done
    /\ AllCodesRejected
    /\ calls.prompt = 3
    /\ calls.invalid = 3
    /\ result = NoToken

\* ------------------------------------------------------------------ C8
\* A failed challenge response other than an invalid-code error.
OtherFailure(r) ==
    /\ ~Succeeded(r)
    /\ ~(r.exc.cls = "ClientError" /\ r.exc.code \in InvalidCodeErrors)
\* C8: in the MFA loop only an invalid-code error is retried; any other
\* failure of the challenge response ends the flow at once, with no further
\* prompt and no token.
C8_OtherFailuresAbort ==
    \A i \in EventsOf("respond") :
        OtherFailure(log[i].r)
            => /\ i = Len(log)
               /\ Done
               /\ result = NoToken

\* ------------------------------------------------------------------ C9
\* The flow ended on a failed authenticate, console read or challenge response.
TerminalFailure ==
    /\ Len(log) > 0
    /\ log[Len(log)].call \in {"auth", "prompt", "respond"}
    /\ ~Succeeded(log[Len(log)].r)
\* C9: get_token never raises: no path ends with an exception, and every
\* terminal failure path returns no token.
C9_NeverRaises ==
    /\ outcome # "raised"
    /\ (Done /\ TerminalFailure) => (outcome = "returned" /\ result = NoToken)
C9_Witness ==
    /\ Done
    /\ file0.kind = "partial"
    /\ TerminalFailure
    /\ log[Len(log)].r = NoResult
    /\ log[Len(log)].call = "respond"
    /\ outcome = "returned"

\* ------------------------------------------------------------------ C10
\* C10: at every point of a save, and for every load of another process, the
\* cache record is the complete previous record or the complete new one.
C10_AtomicOverwrite ==
    /\ file = file0 \/ (calls.save > 0 /\ file = pending)
    /\ observed.n > 0 =>
          observed.raw = file0 \/ (calls.save > 0 /\ observed.raw = pending)

\* ------------------------------------------------------------------ C11
\* The bundles a caller may hand to save_token_to_cache: a primary token
\* string, the refresh and access tokens each present or absent.
Bundles ==
    { Triple(i, r, a) : i \in { t \in CachedIdTokens : Truthy(t) },
                        r \in CachedRefreshTokens, a \in CachedAccessTokens }

\* save_token_to_cache(bundle) is called on some cache file.
InitRoundTrip ==
    /\ pc = "save_open"
    /\ file \in CacheFiles
    /\ file0 = file
    /\ now = Now0
    /\ jwt \in {"PyJWT", "None"}
    /\ cached = NoneTriple
    /\ branch = "none"
    /\ response = NoResponse
    /\ current_attempt = 0
    /\ \E b \in Bundles : pending = cache_data(b.id, b.rt, b.at) /\ retval = b.id
    /\ site = "refresh"
    /\ result = NoToken
    /\ outcome = "running"
    /\ calls = [NoCalls EXCEPT !.save = 1]
    /\ log = <<>>
    /\ current_time = 0
    /\ saved = "none"
    /\ observed = NothingObserved
    /\ decoded = NoClaims
    /\ env = NoEnv
    /\ cli = CliIdle
    /\ username = Opaque(5)
    /\ mfa = NoChallengeData
    /\ submitted = <<>>
    /\ main = MainIdle

\* load_cached_token() called right after the save returned.
LoadAfterSave ==
    /\ pc = "done"
    /\ calls.load = 0
    /\ calls' = Called("load")
    /\ cached' = load_cached_token(file, jwt, now).val
    /\ log' = Append(log, Outcome("load", NoResult))
    /\ UNCHANGED <<pc, file, file0, now, jwt, branch, response, current_attempt, pending,
                   retval, site, result, outcome, current_time, saved, observed, decoded,
                   env, cli, username, mfa, submitted, main>>

NextRoundTrip ==
    \/ SaveOpen
    \/ SaveWrite
    \/ LoadAfterSave

RoundTripSpec == InitRoundTrip /\ [][NextRoundTrip]_vars

\* C11: save(bundle) followed at once by load() yields the same primary
\* token and the same refresh and access tokens, present or absent as given.
C11_RoundTrip ==
    (calls.load = 1 /\ saved = "ok")
        => /\ cached.id = retval
           /\ cached.rt = pending.refresh_token
           /\ cached.at = pending.access_token

\* ------------------------------------------------------------------ C12
\* A refresh succeeded and its response carried no refresh token.
RefreshedWithoutNewRefreshToken ==
    \E i \in EventsOf("refresh") : Succeeded(log[i].r) /\ log[i].r.RefreshToken = NoToken
\* C12: when a refresh succeeds and the response carries no new refresh
\* token, the bundle handed to the save, and the record written, keep the
\* previous refresh token.
C12_RefreshTokenRetained ==
    RefreshedWithoutNewRefreshToken
        => /\ calls.save = 1
           /\ Truthy(pending.refresh_token)
           /\ pending.refresh_token = file0.refresh_token
           /\ saved = "ok" => (file.refresh_token = file0.refresh_token /\ file.token.ser = 1)
C12_Witness ==
    /\ Done
    /\ RefreshedWithoutNewRefreshToken
    /\ saved = "ok"
    /\ file.refresh_token = file0.refresh_token
    /\ file.token = result
    /\ file.token # file0.token

\* ------------------------------------------------------------------ C13
\* C13: when the save fails after a successful authenticate, challenge
\* response or refresh, get_token still returns the newly issued primary token.
C13_FailedSaveNotFatal ==
    (Done /\ saved = "failed" /\ Succeeded(log[Len(log)].r))
        => /\ outcome = "returned"
           /\ result = log[Len(log)].r.IdToken
           /\ Truthy(result)
C13_Witness ==
    /\ Done
    /\ saved = "failed"
    /\ file.kind = "partial"
    /\ log[Len(log)].call = "respond"
    /\ result = log[Len(log)].r.IdToken
    /\ result.ser = 3

\* ------------------------------------------------------------------ C14
\* The cache record is absent, unreadable or malformed.
CacheUnusable == file0.kind \in {"absent", "unreadable", "empty", "partial", "notdict"}
\* C14: with such a record the load returns nothing and raises nothing, and
\* get_token goes straight to authenticate, with no refresh call.
C14_ReadErrorIsEmptyCache ==
    CacheUnusable
        => /\ outcome # "raised"
           /\ calls.refresh = 0
           /\ pc # "load" => cached = NoneTriple
           /\ pc \notin {"load", "inspect"}
                 => (pc = "auth" /\ calls.auth = 0) \/ (calls.auth = 1 /\ log[2].call = "auth")
C14_Witness ==
    /\ Done
    /\ file0.kind = "unreadable"
    /\ calls.auth = 1
    /\ calls.refresh = 0
    /\ Truthy(result)

\* ------------------------------------------------------------------ C15
\* C15: in one invocation refresh is called at most once and authenticate at
\* most once; only the MFA code submission is repeated, at most 3 times.
C15_NoRetry ==
    /\ calls.refresh <= 1
    /\ calls.auth <= 1
    /\ calls.respond <= 3
C15_Witness ==
    /\ Done
    /\ calls.auth = 1
    /\ calls.respond = 3
    /\ calls.invalid = 2
    /\ Truthy(result)

\* ------------------------------------------------------------------ C16
\* The last call made so far and what came back.
LastEvent == log[Len(log)]
\* A network call has come back with a newly issued primary token.
NewlyIssued ==
    \E i \in DOMAIN log :
        log[i].call \in {"refresh", "auth", "respond"} /\ Succeeded(log[i].r)

\* C16: within one invocation the cache is read exactly once, before any
\* network call, and written at most once; a write happens only after a
\* successful authenticate, challenge response or refresh; and on every path
\* that ends without a newly issued token the cache record is left unchanged.
C16_CacheDiscipline ==
    /\ calls.load <= 1
    /\ pc # "load" => (calls.load = 1 /\ log[1].call = "load")
    /\ calls.save <= 1
    /\ calls.save = 1 =>
          /\ LastEvent.call \in {"refresh", "auth", "respond"}
          /\ Succeeded(LastEvent.r)
    /\ file # file0 => NewlyIssued
    /\ (Done /\ ~NewlyIssued) => file = file0

\* ------------------------------------------------------------------ C17
\* The record that holds all that the response r issued.
FullBundle(r) == MkFile("dict", r.IdToken, r.RefreshToken, r.AccessToken)

\* C17: with the cache absent and a password step that succeeds without a
\* challenge, the invocation makes exactly one authenticate call and one
\* cache save, the saved record holds the full issued bundle and the returned
\* token is the issued primary token; when the success comes from a challenge
\* response the same record is saved and the same token returned.
C17_FullAuthentication ==
    /\ (Done /\ file0 = Absent /\ LastEvent.call = "auth" /\ Succeeded(LastEvent.r)) =>
          /\ calls.auth = 1 /\ calls.save = 1
          /\ calls.refresh = 0 /\ calls.respond = 0 /\ calls.prompt = 0
          /\ pending = FullBundle(LastEvent.r)
          /\ saved = "ok" => file = FullBundle(LastEvent.r)
          /\ outcome = "returned" /\ result = LastEvent.r.IdToken
    /\ (Done /\ LastEvent.call = "respond" /\ Succeeded(LastEvent.r)) =>
          /\ calls.auth = 1 /\ calls.save = 1
          /\ pending = FullBundle(LastEvent.r)
          /\ saved = "ok" => file = FullBundle(LastEvent.r)
          /\ outcome = "returned" /\ result = LastEvent.r.IdToken

C17_Witness ==
    /\ Done
    /\ file0 = Absent
    /\ LastEvent.call = "auth"
    /\ Succeeded(LastEvent.r)
    /\ saved = "ok"
    /\ file.token = result
    /\ Truthy(file.refresh_token) /\ Truthy(file.access_token)

\* ------------------------------------------------------------------ C18
\* C18: a cached primary token whose claims do not decode is still handed,
\* with the cached refresh token, by the cache load to its caller.
C18_UndecodableHandedOver ==
    (pc # "load" /\ file0.kind = "dict" /\ Truthy(file0.token) /\ CachedClaims.kind = "None")
        => (cached.id = file0.token /\ cached.rt = file0.refresh_token)

\* ------------------------------------------------- main.py: get_api_token
\* The variables of the auth manager.
authvars == <<pc, file, file0, now, jwt, cached, branch, response, current_attempt,
              pending, retval, site, result, outcome, calls, log, current_time, saved,
              observed, decoded, username, mfa, submitted>>

\* The environment read for ECOSUITE_TOKEN alone.
EnvToken_primary_only(e) == e.ECOSUITE_TOKEN
\* line 137: os.getenv("ECOSUITE_TOKEN") or os.getenv("ECOSUITE_API_TOKEN")
EnvToken(e) ==
    IF TruthyEnv(e.ECOSUITE_TOKEN) THEN e.ECOSUITE_TOKEN ELSE e.ECOSUITE_API_TOKEN

\* "x or ''" of line 147
OrEmpty(tok) == IF Truthy(tok) THEN tok ELSE EmptyStr

\* lines 137-146: the environment token if there is one; else, with both
\* credentials set, auth_manager is imported (which may fail) and
\* get_auth_token called; else the manual prompt.
GetApiToken ==
    /\ cli.pc = "start"
    /\ LET env_token == EnvToken(env) IN
       IF TruthyEnv(env_token)
       THEN cli' = MkCli("done", Strip(env_token), 0, FALSE)
       ELSE IF TruthyEnv(env.ECOSUITE_USERNAME) /\ TruthyEnv(env.ECOSUITE_PASSWORD)
            THEN \E imported \in BOOLEAN :
                   cli' = IF imported
                          THEN MkCli("auth", NoToken, 0, TRUE)
                          ELSE IF CatchesException(Exc("ImportError"))
                               THEN MkCli("manual", NoToken, 0, FALSE)
                               ELSE MkCli("raised", NoToken, 0, FALSE)
            ELSE cli' = MkCli("manual", NoToken, 0, FALSE)
    /\ UNCHANGED <<authvars, env, main>>

\* get_auth_token is running (line 147).
AuthStep ==
    /\ cli.pc = "auth"
    /\ Next

\* A get_api_token that falls back to the manual prompt when get_auth_token
\* returns no token.
AuthReturned_prompt_on_none ==
    /\ cli.pc = "auth"
    /\ pc = "done"
    /\ cli' = IF outcome = "returned" /\ Truthy(result)
              THEN [cli EXCEPT !.pc = "done", !.token = result]
              ELSE [cli EXCEPT !.pc = "manual"]
    /\ UNCHANGED <<authvars, env, main>>
\* lines 147-151: get_auth_token came back: its token, or '' for None; an
\* exception it raised is caught at line 148 and the manual prompt follows.
AuthReturned ==
    /\ cli.pc = "auth"
    /\ pc = "done"
    /\ cli' = IF outcome = "returned"
              THEN [cli EXCEPT !.pc = "done", !.token = OrEmpty(result)]
              ELSE [cli EXCEPT !.pc = "manual"]
    /\ UNCHANGED <<authvars, env, main>>

\* What the user may type at the manual prompt.
ManualInputs == { EnvStr(EmptyStr), EnvStr(Opaque(9)), EnvPadded(Opaque(9)) }

\* line 151: return input("Enter API token (Bearer): ").strip()
ManualPrompt ==
    /\ cli.pc = "manual"
    /\ \E eof \in BOOLEAN, typed \in ManualInputs :
         cli' = IF eof
                THEN [cli EXCEPT !.pc = "raised", !.prompts = @ + 1]
                ELSE [cli EXCEPT !.pc = "done", !.token = Strip(typed), !.prompts = @ + 1]
    /\ UNCHANGED <<authvars, env, main>>

\* The environments get_api_token may run in.
Envs ==
    { MkEnviron(t, a, u, p) :
        t \in { EnvNone, EnvStr(EmptyStr), EnvPadded(EmptyStr), EnvStr(Opaque(7)),
                EnvPadded(Opaque(7)) },
        a \in { EnvNone, EnvStr(Opaque(8)) },
        u \in { EnvNone, EnvStr(Opaque(5)) },
        p \in { EnvNone, EnvStr(Opaque(6)) } }

CliInit ==
    /\ InitAuth
    /\ env \in Envs
    /\ cli = MkCli("start", NoToken, 0, FALSE)
    /\ main = MainIdle

CliNext ==
    \/ GetApiToken
    \/ AuthStep
    \/ AuthReturned
    \/ ManualPrompt

CliSpec == CliInit /\ [][CliNext]_vars

\* ------------------------------------------------------------------ C19
\* A token is supplied through the environment.
EnvSupplied == TruthyEnv(env.ECOSUITE_TOKEN) \/ TruthyEnv(env.ECOSUITE_API_TOKEN)
\* The supplied token: ECOSUITE_TOKEN before ECOSUITE_API_TOKEN, stripped.
SuppliedToken ==
    IF TruthyEnv(env.ECOSUITE_TOKEN) THEN Strip(env.ECOSUITE_TOKEN)
    ELSE Strip(env.ECOSUITE_API_TOKEN)

\* C19: get_api_token calls get_auth_token only when no token is supplied
\* through ECOSUITE_TOKEN or ECOSUITE_API_TOKEN; with a token supplied it
\* returns that token and there is no cache access, no network call and no
\* prompt.
C19_EnvTokenFirst ==
    /\ cli.called => ~EnvSupplied
    /\ EnvSupplied =>
          /\ cli.pc \in {"start", "done"}
          /\ cli.pc = "done" => cli.token = SuppliedToken
          /\ pc = "load" /\ calls = NoCalls /\ log = <<>>
          /\ file = file0
          /\ cli.prompts = 0

C19_Witness ==
    /\ cli.pc = "done"
    /\ ~TruthyEnv(env.ECOSUITE_TOKEN)
    /\ TruthyEnv(env.ECOSUITE_API_TOKEN)
    /\ TruthyEnv(env.ECOSUITE_USERNAME) /\ TruthyEnv(env.ECOSUITE_PASSWORD)
    /\ file0.kind = "dict"
    /\ cli.token = Opaque(8)
    /\ calls.load = 0

\* --------------------------------------------- _decode_token_safe on its own
\* The claims a token to decode may carry.
DecodeClaims ==
    { ClaimsExp(Now0 + d) : d \in ExpOffsets }
    \cup { ClaimsNoExp, ClaimsEmpty, ClaimsBadExp, ClaimsList }
\* The tokens handed to _decode_token_safe.
DecodeTokens ==
    { NoToken, EmptyStr }
    \cup { MkToken("str", n, h, "garbage", NoClaims, 0) : n \in 1..3, h \in {"ok", "bad"} }
    \cup { MkToken("str", n, h, "json", c, 0) :
             n \in 2..3, h \in {"ok", "bad"}, c \in DecodeClaims }

InitDecode ==
    /\ pc = "decode"
    /\ cached \in { Triple(t, NoToken, NoToken) : t \in DecodeTokens }
    /\ jwt \in {"PyJWT", "None"}
    /\ file = Absent
    /\ file0 = Absent
    /\ now = Now0
    /\ branch = "none"
    /\ response = NoResponse
    /\ current_attempt = 0
    /\ pending = Absent
    /\ retval = NoToken
    /\ site = "none"
    /\ result = NoToken
    /\ outcome = "running"
    /\ calls = NoCalls
    /\ log = <<>>
    /\ current_time = 0
    /\ saved = "none"
    /\ observed = NothingObserved
    /\ decoded = NoClaims
    /\ env = NoEnv
    /\ cli = CliIdle
    /\ username = Opaque(5)
    /\ mfa = NoChallengeData
    /\ submitted = <<>>
    /\ main = MainIdle

\* decoded = _decode_token_safe(token): an exception of a decoder is caught
\* by "except Exception" (lines 47 and 63); one not caught would leave the
\* function.
DecodeToken ==
    /\ pc = "decode"
    /\ LET attempts == decode_attempts(cached.id, jwt)
           uncaught == \E i \in DOMAIN attempts :
                          /\ attempts[i].r.exc # NoExc
                          /\ ~CatchesException(attempts[i].r.exc)
       IN /\ log' = attempts
          /\ outcome' = IF uncaught THEN "raised" ELSE "returned"
          /\ decoded' = IF uncaught THEN NoClaims ELSE _decode_token_safe(cached.id, jwt)
    /\ pc' = "done"
    /\ UNCHANGED <<file, file0, now, jwt, cached, branch, response, current_attempt,
                   pending, retval, site, result, calls, current_time, saved, observed,
                   env, cli, username, mfa, submitted, main>>

DecodeSpec == InitDecode /\ [][DecodeToken]_vars

\* ------------------------------------------------------------------ C20
\* The structured decoder can parse the token handed in.
StructuredParses ==
    /\ jwt = "PyJWT"
    /\ Truthy(cached.id)
    /\ cached.id.parts = 3 /\ cached.id.header = "ok"
    /\ cached.id.payload = "json" /\ cached.id.claims.kind = "dict"
\* Segment 1 of the token handed in is valid base64url JSON.
PayloadIsJson ==
    /\ Truthy(cached.id)
    /\ cached.id.parts >= 2
    /\ cached.id.payload = "json"

\* C20: decode tries the structured decoder first and returns its claims if
\* it succeeds; only if it fails is the manual fallback used, so a token the
\* structured decoder cannot parse whose payload segment is valid base64url
\* JSON {"exp": T} yields {"exp": T}; if both fail the result is nothing; and
\* the decode never raises.
C20_StrategyOrder ==
    Done =>
      /\ outcome = "returned"
      /\ StructuredParses =>
            /\ decoded = cached.id.claims
            /\ log = << [call |-> "jwt.decode", r |-> DecodedOk] >>
      /\ (~StructuredParses /\ PayloadIsJson) =>
            /\ decoded = cached.id.claims
            /\ log[Len(log)] = [call |-> "manual", r |-> DecodedOk]
      /\ (~StructuredParses /\ ~PayloadIsJson) => decoded = NoClaims
      /\ \A i \in DOMAIN log :
            log[i].call = "manual" =>
               /\ i = Len(log)
               /\ i > 1 => (log[1].call = "jwt.decode" /\ ~log[1].r.ok)
      /\ (jwt = "PyJWT" /\ Truthy(cached.id)) => log[1].call = "jwt.decode"

C20_Witness ==
    /\ Done
    /\ jwt = "PyJWT"
    /\ cached.id.parts = 2
    /\ cached.id.claims = ClaimsExp(Now0 + RefreshWindow)
    /\ decoded = ClaimsExp(Now0 + RefreshWindow)
    /\ Len(log) = 2
    /\ ~log[1].r.ok

\* ------------------------------------------------------------------ C21
\* C21: every MFA code submission of one invocation is sent with the
\* challenge name, the session handle and the username of the single
\* password step; the loop never runs the password step again and never
\* replaces the session handle after a rejected code.
C21_SameChallengeEveryRetry ==
    /\ Len(submitted) = calls.respond
    /\ \A k \in DOMAIN submitted :
          /\ submitted[k].ChallengeName = mfa.ChallengeName
          /\ submitted[k].Session = mfa.Session
          /\ submitted[k].USERNAME = username
          /\ submitted[k] = submitted[1]
    /\ calls.respond > 0 => mfa \in ChallengeData
    /\ calls.auth = 0 => mfa = NoChallengeData
    /\ calls.auth <= 1
    /\ \A a \in EventsOf("auth"), k \in EventsOf("respond") : a < k

C21_Witness ==
    /\ Done
    /\ calls.respond = 3
    /\ calls.invalid = 3
    /\ Len(submitted) = 3
    /\ mfa.Session = 2
    /\ submitted[3].Session = 2
    /\ submitted[3].ChallengeName = "SMS_MFA"

\* ------------------------------------------------------------------ C22
\* The cached primary token's claims decode to a non-empty object with no
\* exp claim.
CacheWithoutExp ==
    /\ file0.kind = "dict"
    /\ Truthy(file0.token)
    /\ CachedClaims.kind = "dict" /\ ~CachedClaims.empty /\ ~CachedClaims.hasExp

PerProjectGets == 10
GlobalGets == 10

\* What prompt_project_ids may return: the ids in input order, not
\* de-duplicated when typed as a comma-separated list.
ProjectIdLists == { <<>>, <<"p1">>, <<"p1", "p2">>, <<"p1", "p1">> }

\* Exceptions of the requests library: requests.exceptions.RequestException
\* and its subclasses.
RequestExceptionClasses == {"ConnectionError", "Timeout"}
\* A handler that catches nothing.
CatchesRequestException_none(e) == FALSE
\* line 261: "except requests.exceptions.RequestException"
CatchesRequestException(e) == e.cls \in RequestExceptionClasses
\* How a GET and the saving of its response may end: no exception, a
\* transport failure, or a failure writing the output file.
GetOutcomes == { NoExc, Exc("ConnectionError"), Exc("Timeout"), Exc("OSError") }

\* A GET: project 0 stands for the global endpoints.
Request(i, e) == [project |-> i, endpoint |-> e]

\* lines 269-272
PromptProjectIds ==
    /\ main.pc = "ids"
    /\ \E ids \in ProjectIdLists :
         main' = IF ids = <<>>
                 THEN [main EXCEPT !.pc = "done", !.status = 1]
                 ELSE [main EXCEPT !.pc = "token", !.project_ids = ids]
    /\ UNCHANGED <<authvars, env, cli>>

\* line 274: token = get_api_token()
MainGetApiToken ==
    /\ main.pc = "token"
    /\ \/ GetApiToken
       \/ AuthReturned
       \/ ManualPrompt

\* get_auth_token running inside get_api_token: the steps of
\* handle_auth_flow, with the clock and the other processes standing still.
MainAuthStep ==
    /\ main.pc = "token"
    /\ cli.pc = "auth"
    /\ \/ Load
       \/ Inspect
       \/ Refresh
       \/ Authenticate
       \/ Prompt
       \/ Respond
       \/ SaveOpen
       \/ SaveWrite

\* lines 274-277: get_api_token came back; an empty token ends main with 1.
MainToken ==
    /\ main.pc = "token"
    /\ cli.pc \in {"done", "raised"}
    /\ main' = IF cli.pc = "raised"
               THEN [main EXCEPT !.pc = "raised", !.exc = Exc("EOFError")]
               ELSE IF ~Truthy(cli.token)
               THEN [main EXCEPT !.pc = "done", !.status = 1]
               ELSE [main EXCEPT !.pc = "inputs"]
    /\ UNCHANGED <<authvars, env, cli>>

\* lines 279-300: the dates and the aggregation are read and the output
\* folder made; an end of input or a folder that cannot be made ends main.
AskInputs ==
    /\ main.pc = "inputs"
    /\ \E e \in {NoExc, Exc("EOFError"), Exc("OSError")} :
         main' = IF e = NoExc
                 THEN [main EXCEPT !.pc = "project", !.i = 1, !.j = 0]
                 ELSE [main EXCEPT !.pc = "raised", !.exc = e]
    /\ UNCHANGED <<authvars, env, cli>>

\* api_get and what main does with what it returns: the failure is caught at
\* line 261 (api_get returns None and main goes on), or it leaves main.
AfterGet(m, e, next) ==
    IF e = NoExc THEN next
    ELSE IF CatchesRequestException(e) THEN [next EXCEPT !.failed = TRUE]
    ELSE [m EXCEPT !.pc = "raised", !.exc = e, !.requests = next.requests]

\* lines 304-415: the next GET of the project the loop is at.
ProjectGet ==
    /\ main.pc = "project"
    /\ \E e \in GetOutcomes :
         LET reqs == Append(main.requests, Request(main.i, main.j + 1))
             next == IF main.j + 1 < PerProjectGets
                     THEN [main EXCEPT !.j = @ + 1, !.requests = reqs]
                     ELSE IF main.i < Len(main.project_ids)
                     THEN [main EXCEPT !.i = @ + 1, !.j = 0, !.requests = reqs]
                     ELSE [main EXCEPT !.pc = "global", !.j = 0, !.requests = reqs]
         IN main' = AfterGet(main, e, next)
    /\ UNCHANGED <<authvars, env, cli>>

\* lines 418-501: the next global GET; after the last one main returns 0.
GlobalGet ==
    /\ main.pc = "global"
    /\ \E e \in GetOutcomes :
         LET reqs == Append(main.requests, Request(0, main.j + 1))
             next == IF main.j + 1 < GlobalGets
                     THEN [main EXCEPT !.j = @ + 1, !.requests = reqs]
                     ELSE [main EXCEPT !.pc = "done", !.status = 0, !.requests = reqs]
         IN main' = AfterGet(main, e, next)
    /\ UNCHANGED <<authvars, env, cli>>

\* The cache files and environments main is run with.
MainCacheFiles ==
    { Absent,
      MkFile("dict", Jwt(ClaimsList, 0), NoToken, NoToken),
      MkFile("dict", Jwt(ClaimsExp(Now0 + ExpiryBuffer), 0), Opaque(0), NoToken),
      MkFile("dict", Jwt(ClaimsExp(Now0 + TokenLifetime), 0), Opaque(0), NoToken) }
MainEnvs ==
    { NoEnv,
      MkEnviron(EnvNone, EnvNone, EnvStr(Opaque(5)), EnvNone),
      MkEnviron(EnvNone, EnvNone, EnvStr(Opaque(5)), EnvStr(Opaque(6))),
      MkEnviron(EnvPadded(Opaque(7)), EnvNone, EnvStr(Opaque(5)), EnvStr(Opaque(6))) }

MainInit ==
    /\ InitAuth
    /\ file \in MainCacheFiles
    /\ jwt = "PyJWT"
    /\ env \in MainEnvs
    /\ cli = MkCli("start", NoToken, 0, FALSE)
    /\ main = MkMain("ids", <<>>, 0, 0, <<>>, FALSE, 0 - 1, NoExc)

MainNext ==
    \/ PromptProjectIds
    \/ MainGetApiToken
    \/ MainAuthStep
    \/ MainToken
    \/ AskInputs
    \/ ProjectGet
    \/ GlobalGet

MainSpec == MainInit /\ [][MainNext]_vars

\* ------------------------------------------------------------------ C23
\* The GETs of a whole run over ids: ten per project in input order, then the
\* ten global ones.
ExpectedRequests(ids) ==
    [k \in 1..(Len(ids) * PerProjectGets + 10) |->
        IF k <= Len(ids) * PerProjectGets
        THEN Request(((k - 1) \div PerProjectGets) + 1, ((k - 1) % PerProjectGets) + 1)
        ELSE Request(0, k - Len(ids) * PerProjectGets)]

\* C23: a transport failure of a GET (api_get returns None) stops nothing:
\* the GETs are made in the fixed order, each once; main is never ended by a
\* transport failure; and a run that ends after its first GET without
\* another kind of failure has made every GET of every project and the ten
\* global ones and returns 0.
C23_TransportFailureIsolated ==
    /\ Len(main.requests) <= Len(ExpectedRequests(main.project_ids))
    /\ \A k \in DOMAIN main.requests :
          main.requests[k] = ExpectedRequests(main.project_ids)[k]
    /\ main.pc = "raised" => main.exc.cls \notin {"ConnectionError", "Timeout"}
    /\ (main.pc = "done" /\ main.requests # <<>>) =>
          /\ main.status = 0
          /\ main.requests = ExpectedRequests(main.project_ids)
    /\ main.status = 0 => main.requests = ExpectedRequests(main.project_ids)
    /\ main.failed => main.requests # <<>>

C23_Witness ==
    /\ main.pc = "done"
    /\ main.status = 0
    /\ main.failed
    /\ Len(main.project_ids) = 2
    /\ Len(main.requests) = 30
    /\ main.requests[11] = Request(2, 1)
    /\ main.requests[30] = Request(0, 10)

\* ------------------------------------------------------------------ C24
CredentialsSet == TruthyEnv(env.ECOSUITE_USERNAME) /\ TruthyEnv(env.ECOSUITE_PASSWORD)
\* get_auth_token was called and returned no token.
AuthReturnedNothing == cli.called /\ Done /\ outcome = "returned" /\ ~Truthy(result)
\* get_auth_token was called and raised.
AuthRaised == cli.called /\ Done /\ outcome = "raised"
\* The manual-token prompt of line 151 is reached.
PromptReached == cli.pc = "manual" \/ cli.prompts > 0
\* With credentials set and no token from get_auth_token, get_api_token
\* returns '' without a prompt and main ends with 1 before any GET.
EmptyTokenExits ==
    (CredentialsSet /\ AuthReturnedNothing) =>
        /\ cli.pc \in {"auth", "done"}
        /\ cli.prompts = 0
        /\ cli.pc = "done" => cli.token = EmptyStr
        /\ main.requests = <<>>
        /\ main.pc # "token" => (main.pc = "done" /\ main.status = 1)

\* C24 as stated: EmptyTokenExits, and the manual-token prompt is reached
\* only when credentials are missing or get_auth_token raises.
C24_AsStated ==
    /\ EmptyTokenExits
    /\ PromptReached => (~CredentialsSet \/ AuthRaised)

\* C24: EmptyTokenExits, and the manual-token prompt is reached only when
\* credentials are missing, when auth_manager could not be imported (so that
\* get_auth_token was never called), or when get_auth_token raises.
C24_NoTokenExits ==
    /\ EmptyTokenExits
    /\ PromptReached => (~CredentialsSet \/ ~cli.called \/ AuthRaised)

C24_Witness ==
    /\ main.pc = "done"
    /\ main.status = 1
    /\ CredentialsSet
    /\ AuthReturnedNothing
    /\ calls.auth = 1
    /\ cli.pc = "done"
    /\ cli.token = EmptyStr
    /\ cli.prompts = 0

====
